---- MODULE Spec2Model ----
(***************************************************************************)
(* Model of the asset graph view, airflow/www/static/js/assets/Graph.      *)
(*                                                                         *)
(* The component Graph is a function of its props (selectedNodeId,         *)
(* onSelect), of the graph yielded by useAssetGraphs() and of the flag     *)
(* returned by useNodesInitialized().  Every change of one of these makes  *)
(* React run the function body again and then the effect of lines 124-126. *)
(* One action of the model is one such render (body and effect), or one    *)
(* user event (a click on a node, a click on the focus button).            *)
(*                                                                         *)
(* Strings are sequences of one-character strings, so that                 *)
(* String.prototype.includes is a real substring test.  A JavaScript       *)
(* string | undefined is such a sequence or Undefined; an optional number  *)
(* is <<>> (missing) or <<n>>.                                             *)
(***************************************************************************)
EXTENDS Integers, Sequences, FiniteSets, TLC

VARIABLES
  selectedNodeId,    \* prop: a string, or Undefined
  onSelect,          \* prop: TRUE when a callback is passed, FALSE when absent
  graph,             \* data of useAssetGraphs()
  nodesInitialized,  \* result of useNodesInitialized()
  edges,             \* render edges of the last render
  nodes,             \* render nodes of the last render
  node,              \* nodes.find(...) of the last render: <<>> or <<n>>
  nodeRef,           \* object identity of node (0 for undefined)
  focusNodeRef,      \* identity of the callback returned by useCallback,
                     \* named by the identity of the node it closes over
  effectRan,         \* whether the effect body ran in the last render
  setCenterCalls,    \* calls of setCenter made by the last step; x2 and y2
                     \* are twice the coordinates, so that halves are integers
  onSelectCalls,     \* calls of the onSelect prop made by the last step
  event,             \* kind of the last step
  clicked            \* index of the node clicked by the last step, or 0

vars == <<selectedNodeId, onSelect, graph, nodesInitialized, edges, nodes,
          node, nodeRef, focusNodeRef, effectRan, setCenterCalls,
          onSelectCalls, event, clicked>>

-----------------------------------------------------------------------------
(* Bounds *)

MaxChildren == 3

MaxEdges == 2

-----------------------------------------------------------------------------
(* Strings *)

Undefined == <<"undefined">>

AssetPrefix == <<"a", "s", "s", "e", "t", ":">>

DagPrefix == <<"d", "a", "g", ":">>

Separator == <<"-">>

Includes(haystack, needle) ==
  \E i \in 0..(Len(haystack) - Len(needle)) :
    SubSeq(haystack, i + 1, i + Len(needle)) = needle

Truthy(s) == s # Undefined /\ s # <<>>

OrZero(v) == IF v = <<>> THEN 0 ELSE v[1]

First(s) == IF s = <<>> THEN Undefined ELSE s[1]

-----------------------------------------------------------------------------
(* Inputs *)

LabelA == <<"a">>

LabelAB == <<"a", "b">>

LabelB == <<"b">>

SelPool == {Undefined, <<>>, LabelA, LabelB}

ChildPool ==
  << [id |-> AssetPrefix \o LabelA,
     value |-> [label |-> LabelA, class |-> "asset"],
     x |-> <<10>>, y |-> <<20>>, width |-> <<30>>, height |-> <<40>>],
    [id |-> AssetPrefix \o LabelAB,
     value |-> [label |-> LabelAB, class |-> "asset"],
     x |-> <<0>>, y |-> <<7>>, width |-> <<12>>, height |-> <<12>>],
    [id |-> DagPrefix \o LabelB,
     value |-> [label |-> LabelB, class |-> "dag"],
     x |-> <<>>, y |-> <<-6>>, width |-> <<>>, height |-> <<15>>],
    [id |-> <<"n", "1">>,
     value |-> [label |-> LabelA, class |-> "job"],
     x |-> <<50>>, y |-> <<>>, width |-> <<0>>, height |-> <<>>] >>

EdgePool ==
  << [id |-> AssetPrefix \o LabelA \o Separator \o DagPrefix \o LabelB,
     sources |-> <<AssetPrefix \o LabelA>>,
     targets |-> <<DagPrefix \o LabelB>>],
    [id |-> AssetPrefix \o LabelAB \o Separator \o DagPrefix \o LabelB,
     sources |-> <<AssetPrefix \o LabelAB>>,
     targets |-> <<DagPrefix \o LabelB>>],
    [id |-> DagPrefix \o LabelB \o Separator \o AssetPrefix \o LabelA,
     sources |-> <<DagPrefix \o LabelB, AssetPrefix \o LabelAB>>,
     targets |-> <<AssetPrefix \o LabelA>>],
    [id |-> DagPrefix \o LabelB,
     sources |-> <<<<"s", "1">>>>,
     targets |-> <<<<"t", "1">>>>] >>

UndefinedGraph == [kind |-> "undefined"]

HasChildren(g) == "children" \in DOMAIN g

HasEdges(g) == "edges" \in DOMAIN g

Ids(s) == {s[i].id : i \in DOMAIN s}

\* The lists of a graph are drawn in the order of the pools: the entries of
\* pool that may follow the last entry of xs.
PoolIndex(pool, x) == CHOOSE k \in DOMAIN pool : pool[k] = x

Later(pool, xs) ==
  {pool[k] : k \in {j \in DOMAIN pool :
                      xs = <<>> \/ j > PoolIndex(pool, xs[Len(xs)])}}

GraphSuccessors(g) ==
  IF g = UndefinedGraph
  THEN { [kind |-> "GraphResult", children |-> <<>>, edges |-> <<>>],
         [kind |-> "GraphResult", children |-> <<>>],
         [kind |-> "GraphResult", edges |-> <<>>] }
  ELSE {UndefinedGraph}
       \cup (IF HasChildren(g) /\ Len(g.children) < MaxChildren
             THEN {[g EXCEPT !.children = Append(@, c)] :
                     c \in Later(ChildPool, g.children)}
             ELSE {})
       \cup (IF HasEdges(g) /\ Len(g.edges) < MaxEdges
             THEN {[g EXCEPT !.edges = Append(@, e)] :
                     e \in Later(EdgePool, g.edges)}
             ELSE {})

-----------------------------------------------------------------------------
(* The body of Graph *)

\* Variant: only the asset tag is looked for.
EdgeIsSelectedAssetOnly(e, sel) ==
  /\ Truthy(sel)
  /\ Includes(e.id, AssetPrefix \o sel)

EdgeIsSelected(e, sel) ==
  /\ Truthy(sel)
  /\ \/ Includes(e.id, AssetPrefix \o sel)
     \/ Includes(e.id, DagPrefix \o sel)

RenderEdge(e, sel) ==
  [id |-> e.id,
   source |-> First(e.sources),
   target |-> First(e.targets),
   type |-> "custom",
   data |-> [rest |-> [id |-> e.id, sources |-> e.sources,
                       targets |-> e.targets,
                       isSelected |-> EdgeIsSelected(e, sel)]]]

\* Variant: edges whose source is not a child of the graph are dropped.
RenderEdgesOfChildren(g, sel) ==
  IF g # UndefinedGraph /\ HasEdges(g)
  THEN LET known(e) == /\ HasChildren(g)
                       /\ First(e.sources) \in Ids(g.children)
           kept == SelectSeq(g.edges, known)
       IN  [i \in 1..Len(kept) |-> RenderEdge(kept[i], sel)]
  ELSE <<>>

RenderEdges(g, sel) ==
  IF g # UndefinedGraph /\ HasEdges(g)
  THEN [i \in 1..Len(g.edges) |-> RenderEdge(g.edges[i], sel)]
  ELSE <<>>

\* Variant: substring test instead of equality.
NodeIsSelectedSubstring(c, sel) ==
  sel # Undefined /\ Includes(c.value.label, sel)

NodeIsSelected(c, sel) == sel = c.value.label

\* Variant: the edge's own flag is not consulted.
NodeIsHighlightedAnyEdge(c, es) ==
  \E j \in DOMAIN es : Includes(es[j].id, c.id)

NodeIsHighlighted(c, es) ==
  \E j \in DOMAIN es : es[j].data.rest.isSelected /\ Includes(es[j].id, c.id)

RenderNode(c, sel, onSel, es) ==
  [id |-> c.id,
   data |-> [label |-> c.value.label,
             type |-> c.value.class,
             width |-> c.width,
             height |-> c.height,
             onSelect |-> [c |-> c, onSelect |-> onSel],
             isSelected |-> NodeIsSelected(c, sel),
             isHighlighted |-> NodeIsHighlighted(c, es)],
   type |-> "custom",
   position |-> [x |-> OrZero(c.x), y |-> OrZero(c.y)]]

RenderNodes(g, sel, onSel, es) ==
  IF g # UndefinedGraph /\ HasChildren(g)
  THEN [i \in 1..Len(g.children) |-> RenderNode(g.children[i], sel, onSel, es)]
  ELSE <<>>

Find(ns, sel) ==
  LET hits == {i \in DOMAIN ns : ns[i].data.label = sel}
  IN  IF hits = {} THEN <<>>
      ELSE <<ns[CHOOSE i \in hits : \A k \in hits : i <= k]>>

Fresh(ref) == IF ref = 1 THEN 2 ELSE 1

UseCallback(oldRef, oldNodeRef, newNodeRef) ==
  IF newNodeRef # oldNodeRef THEN newNodeRef ELSE oldRef

\* Variant: the width and height are added whole, not halved.
FocusNodeNoHalf(n) ==
  IF n # <<>>
  THEN <<[x2 |-> 2 * n[1].position.x + 2 * OrZero(n[1].data.width),
          y2 |-> 2 * n[1].position.y + 2 * OrZero(n[1].data.height),
          duration |-> 1000]>>
  ELSE <<>>

\* Variant: without a located node the viewport is centred on the origin.
FocusNodeUnguarded(n) ==
  IF n # <<>>
  THEN <<[x2 |-> 2 * n[1].position.x + OrZero(n[1].data.width),
          y2 |-> 2 * n[1].position.y + OrZero(n[1].data.height),
          duration |-> 1000]>>
  ELSE <<[x2 |-> 0, y2 |-> 0, duration |-> 1000]>>

FocusNode(n) ==
  IF n # <<>>
  THEN <<[x2 |-> 2 * n[1].position.x + OrZero(n[1].data.width),
          y2 |-> 2 * n[1].position.y + OrZero(n[1].data.height),
          duration |-> 1000]>>
  ELSE <<>>

\* Variant: the effect does not wait for nodesInitialized.
FocusEffectAlways(ni, n) == FocusNode(n)

FocusEffect(ni, n) == IF ni THEN FocusNode(n) ELSE <<>>

\* Variant: every known class is reported as an asset uri.
NodeOnSelectAlwaysUri(closure) ==
  IF closure.onSelect
  THEN IF closure.c.value.class = "asset" \/ closure.c.value.class = "dag"
       THEN <<[uri |-> closure.c.value.label]>>
       ELSE <<>>
  ELSE <<>>

NodeOnSelect(closure) ==
  IF closure.onSelect
  THEN IF closure.c.value.class = "asset"
       THEN <<[uri |-> closure.c.value.label]>>
       ELSE IF closure.c.value.class = "dag"
            THEN <<[dagId |-> closure.c.value.label]>>
            ELSE <<>>
  ELSE <<>>

-----------------------------------------------------------------------------
(* Steps *)

Render(sel, onSel, g, ni) ==
  LET es == RenderEdges(g, sel)
      ns == RenderNodes(g, sel, onSel, es)
      n == Find(ns, sel)
      nref == IF n = <<>> THEN 0 ELSE Fresh(nodeRef)
      fref == UseCallback(focusNodeRef, nodeRef, nref)
      run == \/ sel # selectedNodeId
             \/ ni # nodesInitialized
             \/ fref # focusNodeRef
  IN  /\ selectedNodeId' = sel
      /\ onSelect' = onSel
      /\ graph' = g
      /\ nodesInitialized' = ni
      /\ edges' = es
      /\ nodes' = ns
      /\ node' = n
      /\ nodeRef' = nref
      /\ focusNodeRef' = fref
      /\ effectRan' = run
      /\ setCenterCalls' = IF run THEN FocusEffect(ni, n) ELSE <<>>
      /\ onSelectCalls' = <<>>
      /\ event' = "render"
      /\ clicked' = 0

SelectionChange ==
  \E sel \in SelPool \ {selectedNodeId} :
    Render(sel, onSelect, graph, nodesInitialized)

OnSelectChange == Render(selectedNodeId, ~onSelect, graph, nodesInitialized)

DataChange ==
  \E g \in GraphSuccessors(graph) :
    Render(selectedNodeId, onSelect, g, nodesInitialized)

NodesInitializedChange ==
  Render(selectedNodeId, onSelect, graph, ~nodesInitialized)

ReRender == Render(selectedNodeId, onSelect, graph, nodesInitialized)

ClickNode ==
  \E i \in DOMAIN nodes :
    /\ onSelectCalls' = NodeOnSelect(nodes[i].data.onSelect)
    /\ setCenterCalls' = <<>>
    /\ event' = "nodeClick"
    /\ clicked' = i
    /\ UNCHANGED <<selectedNodeId, onSelect, graph, nodesInitialized, edges,
                   nodes, node, nodeRef, focusNodeRef, effectRan>>

ClickFocusButton ==
  /\ Truthy(selectedNodeId)
  /\ setCenterCalls' = FocusNode(node)
  /\ onSelectCalls' = <<>>
  /\ event' = "focusClick"
  /\ clicked' = 0
  /\ UNCHANGED <<selectedNodeId, onSelect, graph, nodesInitialized, edges,
                 nodes, node, nodeRef, focusNodeRef, effectRan>>

Init ==
  /\ selectedNodeId \in SelPool
  /\ onSelect \in BOOLEAN
  /\ graph = UndefinedGraph
  /\ nodesInitialized = FALSE
  /\ edges = <<>>
  /\ nodes = <<>>
  /\ node = <<>>
  /\ nodeRef = 0
  /\ focusNodeRef = 0
  /\ effectRan = TRUE
  /\ setCenterCalls = <<>>
  /\ onSelectCalls = <<>>
  /\ event = "render"
  /\ clicked = 0

Next ==
  \/ SelectionChange
  \/ OnSelectChange
  \/ DataChange
  \/ NodesInitializedChange
  \/ ReRender
  \/ ClickNode
  \/ ClickFocusButton

Spec == Init /\ [][Next]_vars

-----------------------------------------------------------------------------
(* Helpers of the properties *)

Children == IF graph # UndefinedGraph /\ HasChildren(graph)
            THEN graph.children ELSE <<>>

GraphEdges == IF graph # UndefinedGraph /\ HasEdges(graph)
              THEN graph.edges ELSE <<>>

Tagged(id, sel) ==
  Includes(id, AssetPrefix \o sel) \/ Includes(id, DagPrefix \o sel)

Labelled(cs, sel) == {i \in DOMAIN cs : cs[i].value.label = sel}

FirstLabelled(cs, sel) ==
  cs[CHOOSE i \in Labelled(cs, sel) : \A k \in Labelled(cs, sel) : i <= k]

Num(v) == IF v = <<>> THEN 0 ELSE v[1]

CenterOf(c) ==
  [x2 |-> 2 * Num(c.x) + Num(c.width),
   y2 |-> 2 * Num(c.y) + Num(c.height),
   duration |-> 1000]

ExpectedFocus(cs, sel) ==
  IF Labelled(cs, sel) = {} THEN <<>> ELSE <<CenterOf(FirstLabelled(cs, sel))>>

-----------------------------------------------------------------------------
(* C1 *)

\* C1 (as stated): there is one render edge per edge of the graph, and it is
\* selected iff selectedNodeId is set and the edge id contains
\* "asset:" + selectedNodeId or "dag:" + selectedNodeId.
C1_SelectedIffSetAndTagged ==
  /\ Len(edges) = Len(GraphEdges)
  /\ \A j \in DOMAIN edges :
       /\ edges[j].id = GraphEdges[j].id
       /\ edges[j].data.rest.isSelected <=>
            (selectedNodeId # Undefined /\ Tagged(GraphEdges[j].id, selectedNodeId))

\* C1 (amended): there is one render edge per edge of the graph, and it is
\* selected iff selectedNodeId is set to a non-empty string and the edge id
\* contains "asset:" + selectedNodeId or "dag:" + selectedNodeId, whatever
\* the edge's sources and targets are.
C1_SelectedIffNonEmptyAndTagged ==
  /\ Len(edges) = Len(GraphEdges)
  /\ \A j \in DOMAIN edges :
       /\ edges[j].id = GraphEdges[j].id
       /\ edges[j].data.rest.isSelected <=>
            /\ selectedNodeId # Undefined
            /\ selectedNodeId # <<>>
            /\ Tagged(GraphEdges[j].id, selectedNodeId)

C1_Witness ==
  /\ selectedNodeId = LabelB
  /\ \E j \in DOMAIN edges :
       /\ edges[j].id = DagPrefix \o LabelB
       /\ edges[j].source = <<"s", "1">>
       /\ edges[j].data.rest.isSelected

-----------------------------------------------------------------------------
(* C2 *)

\* C2: in every render a node is highlighted iff some render edge of the same
\* render is selected and has an id that contains the node's id.
C2_HighlightedIffSelectedEdge ==
  /\ Len(nodes) = Len(Children)
  /\ \A i \in DOMAIN nodes :
       /\ nodes[i].id = Children[i].id
       /\ nodes[i].data.isHighlighted <=>
            \E j \in DOMAIN edges :
              /\ edges[j].data.rest.isSelected
              /\ Includes(edges[j].id, nodes[i].id)

C2_Witness ==
  /\ \E i \in DOMAIN nodes : nodes[i].data.isHighlighted
  /\ \E i \in DOMAIN nodes : ~nodes[i].data.isHighlighted
  /\ \E j, k \in DOMAIN edges :
       edges[j].source = edges[k].target /\ edges[k].source = edges[j].target

-----------------------------------------------------------------------------
(* C3 *)

\* C3: a click on the node built from child c calls onSelect once with
\* {uri: label} for class "asset", once with {dagId: label} for class "dag",
\* and not at all for another class or when the onSelect prop is absent.
C3_ClickCallsOnSelect ==
  event = "nodeClick" =>
    LET c == Children[clicked]
    IN  onSelectCalls =
          IF ~onSelect THEN <<>>
          ELSE IF c.value.class = "asset" THEN <<[uri |-> c.value.label]>>
          ELSE IF c.value.class = "dag" THEN <<[dagId |-> c.value.label]>>
          ELSE <<>>

C3_Witness ==
  /\ event = "nodeClick"
  /\ onSelectCalls = <<[dagId |-> LabelB]>>

-----------------------------------------------------------------------------
(* C4 *)

\* C4: the effect calls setCenter only in a render where nodesInitialized is
\* true; and in a render where nodesInitialized is true and either
\* selectedNodeId has changed or nodesInitialized has just become true, if a
\* node carries the label selectedNodeId then setCenter is called once, on
\* the centre of the first such node.
C4_AutoFocus ==
  [][ event' = "render" =>
        /\ setCenterCalls' # <<>> => nodesInitialized'
        /\ ( /\ nodesInitialized'
             /\ selectedNodeId' # selectedNodeId \/ ~nodesInitialized
             /\ Labelled(Children', selectedNodeId') # {} )
           => setCenterCalls' = ExpectedFocus(Children', selectedNodeId')
    ]_vars

C4_Witness ==
  /\ event = "render"
  /\ effectRan
  /\ nodesInitialized
  /\ selectedNodeId = LabelA
  /\ setCenterCalls = <<[x2 |-> 50, y2 |-> 80, duration |-> 1000]>>

-----------------------------------------------------------------------------
(* C5 *)

\* C5: when the focus action runs (from the button, or from the effect in a
\* render where the effect ran and nodesInitialized is true) it calls
\* setCenter once with the midpoint of the first node in child order whose
\* label is selectedNodeId, a missing x, y, width or height counting as 0,
\* with duration 1000; and it calls nothing when no node has that label.
C5_FocusCentersOnMidpoint ==
  (event = "focusClick" \/ (event = "render" /\ effectRan /\ nodesInitialized))
    => setCenterCalls = ExpectedFocus(Children, selectedNodeId)

C5_Witness ==
  /\ event = "focusClick"
  /\ selectedNodeId = LabelA
  /\ Len(Children) >= 2
  /\ Children[1].id = AssetPrefix \o LabelA
  /\ Cardinality(Labelled(Children, LabelA)) = 2
  /\ setCenterCalls = <<[x2 |-> 50, y2 |-> 80, duration |-> 1000]>>

-----------------------------------------------------------------------------
(* C6 *)

\* C6: the node built from child c is selected iff c.value.label equals
\* selectedNodeId exactly; with selectedNodeId unset no node is selected.
C6_SelectedIffLabelEqual ==
  /\ Len(nodes) = Len(Children)
  /\ \A i \in DOMAIN nodes :
       nodes[i].data.isSelected <=> Children[i].value.label = selectedNodeId
  /\ selectedNodeId = Undefined =>
       \A i \in DOMAIN nodes : ~nodes[i].data.isSelected

C6_Witness ==
  /\ selectedNodeId = LabelA
  /\ \E i \in DOMAIN nodes :
       nodes[i].data.label = LabelA /\ nodes[i].data.isSelected
  /\ \E i \in DOMAIN nodes :
       nodes[i].data.label = LabelAB /\ ~nodes[i].data.isSelected

-----------------------------------------------------------------------------
(* C7 *)

ZeroChildren ==
  graph # UndefinedGraph /\ HasChildren(graph) /\ graph.children = <<>>

\* C7 (as stated): a graph with zero children, whatever its edges, renders
\* zero nodes and zero edges.
C7_ZeroChildrenNothingRendered ==
  ZeroChildren => nodes = <<>> /\ edges = <<>>

\* C7 (amended): a graph with zero children renders zero nodes, and one
\* render edge per entry of its edges list (none when the list is empty or
\* missing).
C7_ZeroChildrenNoNodes ==
  ZeroChildren => nodes = <<>> /\ Len(edges) = Len(GraphEdges)

C7_Witness ==
  ZeroChildren /\ event = "render" /\ Len(edges) = 2

-----------------------------------------------------------------------------
(* C8 *)

\* C8: without a graph there are no render nodes, no render edges, no focus
\* target and no setCenter call, from the effect or from the button; a graph
\* without a children list renders no nodes and one without an edges list
\* renders no edges.
C8_MissingDataIsEmpty ==
  /\ graph = UndefinedGraph =>
       nodes = <<>> /\ edges = <<>> /\ node = <<>> /\ setCenterCalls = <<>>
  /\ (graph # UndefinedGraph /\ ~HasChildren(graph)) =>
       nodes = <<>> /\ node = <<>> /\ setCenterCalls = <<>>
  /\ (graph # UndefinedGraph /\ ~HasEdges(graph)) => edges = <<>>

C8_Witness ==
  /\ graph = UndefinedGraph
  /\ nodesInitialized
  /\ selectedNodeId = LabelA
  /\ event = "focusClick"

-----------------------------------------------------------------------------
(* C9 *)

ConventionalNode(c) ==
  \/ c.id = AssetPrefix \o c.value.label
  \/ c.id = DagPrefix \o c.value.label

ConventionalEdge(e, cs) ==
  \E i, k \in DOMAIN cs :
    /\ e.sources = <<cs[i].id>>
    /\ e.targets = <<cs[k].id>>
    /\ e.id = cs[i].id \o Separator \o cs[k].id

FollowsConvention ==
  /\ \A i \in DOMAIN Children : ConventionalNode(Children[i])
  /\ \A j \in DOMAIN GraphEdges : ConventionalEdge(GraphEdges[j], Children)

\* C9: in a graph that follows the id convention, when selectedNodeId is the
\* label of a node, every selected render edge has a node with that label as
\* its source or its target.
C9_SelectedEdgesTouchSelection ==
  (FollowsConvention /\ Labelled(Children, selectedNodeId) # {}) =>
    \A j \in DOMAIN edges :
      edges[j].data.rest.isSelected =>
        \E i \in Labelled(Children, selectedNodeId) :
          edges[j].source = Children[i].id \/ edges[j].target = Children[i].id

-----------------------------------------------------------------------------
(* C10 *)

\* C10: once nodesInitialized is true and the effect has focused the selected
\* node, a render in which selectedNodeId, the graph and nodesInitialized are
\* unchanged calls setCenter no more.
C10_NoRefocusOnUnchangedRender ==
  [][ ( /\ nodesInitialized
        /\ event = "render"
        /\ setCenterCalls # <<>>
        /\ event' = "render"
        /\ selectedNodeId' = selectedNodeId
        /\ graph' = graph
        /\ nodesInitialized' = nodesInitialized )
      => setCenterCalls' = <<>>
    ]_vars

====
